---- MODULE Spec2Model ----
(***************************************************************************)
(* A model of pdf2editable: the font mapper (app/services/font_mapper.py), *)
(* the paragraph grouping and document assembly of the DOCX generator      *)
(* (app/services/docx_generator.py), the page extraction of the PDF        *)
(* processor (app/services/pdf_processor.py) and the /convert handler      *)
(* (app/api/endpoints/convert.py).                                         *)
(*                                                                         *)
(* Python strings that the code inspects character by character (font      *)
(* names) are sequences of one-character strings.                          *)
(***************************************************************************)
EXTENDS Integers, Sequences, FiniteSets, TLC

VARIABLES
  fm,         \* the last FontMapper call: [op, raw, ret]
  grp,        \* the last _group_text_into_paragraphs call: [op, text_blocks, ret]
  pdf,        \* the PDF file at pdf_path: the sequence of its pages
  tesseract,  \* the OCR backend of the host: "ok", "no_module" or "no_binary"
  processor,  \* the PDFProcessor object, or NoProcessor
  call,       \* the last call made on the processor or the generator
  http,       \* the /convert service: its last response and its stored files
  page_list   \* a list of PDFPage records a caller has put together itself

vars == <<fm, grp, pdf, tesseract, processor, call, http, page_list>>

pipeVars == <<pdf, tesseract, processor, call, http, page_list>>

(***************************************************************************)
(* Generic helpers on sequences.                                           *)
(***************************************************************************)

\* str.replace(sub, ""): the non-overlapping occurrences of sub, found left to
\* right, are removed.
RECURSIVE Remove(_, _)
Remove(s, sub) ==
  IF Len(s) < Len(sub) THEN s
  ELSE IF SubSeq(s, 1, Len(sub)) = sub
       THEN Remove(SubSeq(s, Len(sub) + 1, Len(s)), sub)
       ELSE <<Head(s)>> \o Remove(Tail(s), sub)

\* str.isupper() / str.islower() of one character
Upper ==
  {"A","B","C","D","E","F","G","H","I","J","K","L","M",
   "N","O","P","Q","R","S","T","U","V","W","X","Y","Z"}

Lower ==
  {"a","b","c","d","e","f","g","h","i","j","k","l","m",
   "n","o","p","q","r","s","t","u","v","w","x","y","z"}

\* the characters str.strip() removes
Whitespace == {" ", "\t", "\n"}

RECURSIVE LStrip(_)
LStrip(s) ==
  IF s # <<>> /\ Head(s) \in Whitespace THEN LStrip(Tail(s)) ELSE s

RECURSIVE RStrip(_)
RStrip(s) ==
  IF s # <<>> /\ s[Len(s)] \in Whitespace
  THEN RStrip(SubSeq(s, 1, Len(s) - 1)) ELSE s

Strip(s) == RStrip(LStrip(s))

(***************************************************************************)
(* FontMapper (app/services/font_mapper.py)                                *)
(***************************************************************************)

Arial == <<"A","r","i","a","l">>

\* FONT_SUBSTITUTION: the dict as its set of (key, value) pairs
FONT_SUBSTITUTION ==
  { << <<"U","T","M"," ","A","v","o">>,
       <<"A","r","i","a","l">> >>,
    << <<"U","T","M"," ","T","i","m","e","s">>,
       <<"T","i","m","e","s"," ","N","e","w"," ","R","o","m","a","n">> >>,
    << <<"V","N","I","-","T","i","m","e","s">>,
       <<"T","i","m","e","s"," ","N","e","w"," ","R","o","m","a","n">> >>,
    << <<"V","N","I","-","H","e","l","v","e">>,
       <<"A","r","i","a","l">> >>,
    << <<".","V","n","T","i","m","e">>,
       <<"T","i","m","e","s"," ","N","e","w"," ","R","o","m","a","n">> >>,
    << <<".","V","n","A","r","i","a","l">>,
       <<"A","r","i","a","l">> >>,
    << <<"H","e","l","v","e","t","i","c","a">>,
       <<"A","r","i","a","l">> >>,
    << <<"H","e","l","v","e","t","i","c","a"," ","N","e","u","e">>,
       <<"A","r","i","a","l">> >>,
    << <<"S","F"," ","P","r","o">>,
       <<"S","e","g","o","e"," ","U","I">> >>,
    << <<"S","F"," ","P","r","o"," ","D","i","s","p","l","a","y">>,
       <<"S","e","g","o","e"," ","U","I">> >>,
    << <<"R","o","b","o","t","o">>,
       <<"A","r","i","a","l">> >>,
    << <<"O","p","e","n"," ","S","a","n","s">>,
       <<"A","r","i","a","l">> >>,
    << <<"L","a","t","o">>,
       <<"A","r","i","a","l">> >>,
    << <<"G","e","o","r","g","i","a">>,
       <<"T","i","m","e","s"," ","N","e","w"," ","R","o","m","a","n">> >>,
    << <<"P","a","l","a","t","i","n","o">>,
       <<"T","i","m","e","s"," ","N","e","w"," ","R","o","m","a","n">> >>,
    << <<"C","a","m","b","r","i","a">>,
       <<"T","i","m","e","s"," ","N","e","w"," ","R","o","m","a","n">> >>,
    << <<"C","o","u","r","i","e","r">>,
       <<"C","o","u","r","i","e","r"," ","N","e","w">> >>,
    << <<"M","o","n","a","c","o">>,
       <<"C","o","u","r","i","e","r"," ","N","e","w">> >>,
    << <<"C","o","n","s","o","l","a","s">>,
       <<"C","o","u","r","i","e","r"," ","N","e","w">> >> }

SubstitutionKeys == { e[1] : e \in FONT_SUBSTITUTION }

\* FONT_SUBSTITUTION[k]
SubstitutionOf(k) == (CHOOSE e \in FONT_SUBSTITUTION : e[1] = k)[2]

WEB_SAFE_FONTS ==
  { <<"A","r","i","a","l">>,
    <<"T","i","m","e","s"," ","N","e","w"," ","R","o","m","a","n">>,
    <<"C","o","u","r","i","e","r"," ","N","e","w">>,
    <<"V","e","r","d","a","n","a">>,
    <<"G","e","o","r","g","i","a">>,
    <<"C","o","m","i","c"," ","S","a","n","s"," ","M","S">>,
    <<"T","r","e","b","u","c","h","e","t"," ","M","S">>,
    <<"A","r","i","a","l"," ","B","l","a","c","k">>,
    <<"I","m","p","a","c","t">> }

\* the suffixes _clean_font_name removes, in the order of its loop
StyleSuffixes ==
  << <<"-","B","o","l","d">>,
     <<"-","I","t","a","l","i","c">>,
     <<"-","B","o","l","d","I","t","a","l","i","c">>,
     <<"-","R","e","g","u","l","a","r">>,
     <<"M","T">> >>

\* for suffix in [...]: font_name = font_name.replace(suffix, "")
RECURSIVE RemoveSuffixes(_, _)
RemoveSuffixes(name, suffixes) ==
  IF suffixes = <<>> THEN name
  ELSE RemoveSuffixes(Remove(name, Head(suffixes)), Tail(suffixes))

\* the CamelCase loop: a space goes before every upper-case character that
\* follows a lower-case one
RECURSIVE SplitCamelCase(_, _)
SplitCamelCase(name, i) ==
  IF i > Len(name) THEN <<>>
  ELSE (IF i > 1 /\ name[i] \in Upper /\ name[i - 1] \in Lower
        THEN <<" ", name[i]>> ELSE <<name[i]>>)
       \o SplitCamelCase(name, i + 1)

\* A faulty CamelCase loop: the space goes before every upper-case character
\* that follows any character other than a space.
RECURSIVE SplitEveryCapital(_, _)
SplitEveryCapital(name, i) ==
  IF i > Len(name) THEN <<>>
  ELSE (IF i > 1 /\ name[i] \in Upper /\ name[i - 1] # " "
        THEN <<" ", name[i]>> ELSE <<name[i]>>)
       \o SplitEveryCapital(name, i + 1)

\* _clean_font_name with the faulty CamelCase loop
clean_font_name_split_every_capital(font_name) ==
  Strip(SplitEveryCapital(RemoveSuffixes(font_name, StyleSuffixes), 1))

\* FontMapper._clean_font_name
clean_font_name(font_name) ==
  Strip(SplitCamelCase(RemoveSuffixes(font_name, StyleSuffixes), 1))

\* map_font with a faulty last branch: the cleaned name is returned instead of
\* "Arial"
map_font_returns_cleaned_on_miss(pdf_font_name) ==
  LET clean_name == clean_font_name(pdf_font_name) IN
    IF clean_name \in WEB_SAFE_FONTS THEN clean_name
    ELSE IF clean_name \in SubstitutionKeys THEN SubstitutionOf(clean_name)
    ELSE clean_name

\* FontMapper.map_font
map_font(pdf_font_name) ==
  LET clean_name == clean_font_name(pdf_font_name) IN
    IF clean_name \in WEB_SAFE_FONTS THEN clean_name
    ELSE IF clean_name \in SubstitutionKeys THEN SubstitutionOf(clean_name)
    ELSE Arial

\* get_font_info with the table looked up before the comparison with the
\* mapped name (not the code: "Georgia" would be reported as substituted)
get_font_info_table_first(pdf_font_name) ==
  LET mapped == map_font(pdf_font_name)
      clean_original == clean_font_name(pdf_font_name)
  IN [ original |-> pdf_font_name,
       cleaned  |-> clean_original,
       mapped   |-> mapped,
       reason   |-> IF clean_original \in SubstitutionKeys THEN "substituted"
                    ELSE IF clean_original = mapped THEN "web-safe"
                    ELSE "fallback" ]

\* FontMapper.get_font_info
get_font_info(pdf_font_name) ==
  LET mapped == map_font(pdf_font_name)
      clean_original == clean_font_name(pdf_font_name)
  IN [ original |-> pdf_font_name,
       cleaned  |-> clean_original,
       mapped   |-> mapped,
       reason   |-> IF clean_original = mapped THEN "web-safe"
                    ELSE IF clean_original \in SubstitutionKeys THEN "substituted"
                    ELSE "fallback" ]

\* Font names that are in neither table, as a PDF may carry them.
OtherFontNames ==
  { <<"S","o","m","e","R","a","n","d","o","m","F","o","n","t","1","2","3">>,
    <<"U","n","k","n","o","w","n","F","o","n","t">>,
    <<"T","i","m","e","s","N","e","w","R","o","m","a","n">>,
    <<"O","C","R","-","R","e","s","u","l","t">>,
    <<"A","r","i","a","l","M","T">>,
    <<" ","A","r","i","a","l">>,
    <<>>,
    <<"a","r","i","a","l">> }

\* The names the calls are made with: every name of the two tables and the
\* names above, bare and with each style suffix appended.
FontInputs ==
  { base \o suffix :
      base \in WEB_SAFE_FONTS \cup SubstitutionKeys \cup OtherFontNames,
      suffix \in {<<>>} \cup { StyleSuffixes[i] : i \in DOMAIN StyleSuffixes } }

\* A caller holds a font name, raw, and calls the three class methods on it.
FontInit == \E raw \in FontInputs : fm = [op |-> "none", raw |-> raw, ret |-> <<>>]

CallCleanFontName ==
  /\ fm' = [op |-> "_clean_font_name", raw |-> fm.raw, ret |-> clean_font_name(fm.raw)]
  /\ UNCHANGED <<grp, pipeVars>>

CallMapFont ==
  /\ fm' = [op |-> "map_font", raw |-> fm.raw, ret |-> map_font(fm.raw)]
  /\ UNCHANGED <<grp, pipeVars>>

CallGetFontInfo ==
  /\ fm' = [op |-> "get_font_info", raw |-> fm.raw, ret |-> get_font_info(fm.raw)]
  /\ UNCHANGED <<grp, pipeVars>>

(***************************************************************************)
(* DOCXGenerator._group_text_into_paragraphs                               *)
(* (app/services/docx_generator.py)                                        *)
(***************************************************************************)

\* PDFTextBlock (app/services/pdf_processor.py); coordinates and sizes are
\* whole numbers of points here.
PDFTextBlock(text, x0, y0, x1, y1, font_name, font_size) ==
  [ text |-> text, x0 |-> x0, y0 |-> y0, x1 |-> x1, y1 |-> y1,
    font_name |-> font_name, font_size |-> font_size ]

\* the default of the parameter y_tolerance
Y_TOLERANCE == 5

Abs(n) == IF n < 0 THEN -n ELSE n

\* the sort key lambda b: (b.y0, b.x0), compared as Python compares tuples
KeyLE(a, b) == a.y0 < b.y0 \/ (a.y0 = b.y0 /\ a.x0 <= b.x0)

\* sorted(text_blocks, key=...): a stable sort, as an insertion of each block
\* behind the blocks whose key is not greater
RECURSIVE InsertByKey(_, _)
InsertByKey(s, b) ==
  IF s = <<>> THEN <<b>>
  ELSE IF KeyLE(Head(s), b) THEN <<Head(s)>> \o InsertByKey(Tail(s), b)
  ELSE <<b>> \o s

RECURSIVE SortedBlocks(_)
SortedBlocks(s) ==
  IF s = <<>> THEN <<>>
  ELSE InsertByKey(SortedBlocks(SubSeq(s, 1, Len(s) - 1)), s[Len(s)])

\* A faulty loop: current_y follows the last block added (a sliding window).
RECURSIVE GroupLoopSlidingAnchor(_, _, _, _, _, _)
GroupLoopSlidingAnchor(sorted_blocks, i, paragraphs, current_para, current_y, y_tolerance) ==
  IF i > Len(sorted_blocks)
  THEN (IF current_para # <<>> THEN Append(paragraphs, current_para) ELSE paragraphs)
  ELSE LET block == sorted_blocks[i] IN
    IF Abs(block.y0 - current_y) <= y_tolerance
    THEN GroupLoopSlidingAnchor(sorted_blocks, i + 1, paragraphs,
                                Append(current_para, block), block.y0, y_tolerance)
    ELSE GroupLoopSlidingAnchor(sorted_blocks, i + 1, Append(paragraphs, current_para),
                                <<block>>, block.y0, y_tolerance)

\* A faulty loop: the paragraph being filled when the blocks run out is not
\* appended.
RECURSIVE GroupLoopDropsLastParagraph(_, _, _, _, _, _)
GroupLoopDropsLastParagraph(sorted_blocks, i, paragraphs, current_para, current_y, y_tolerance) ==
  IF i > Len(sorted_blocks)
  THEN paragraphs
  ELSE LET block == sorted_blocks[i] IN
    IF Abs(block.y0 - current_y) <= y_tolerance
    THEN GroupLoopDropsLastParagraph(sorted_blocks, i + 1, paragraphs,
                                     Append(current_para, block), current_y, y_tolerance)
    ELSE GroupLoopDropsLastParagraph(sorted_blocks, i + 1, Append(paragraphs, current_para),
                                     <<block>>, block.y0, y_tolerance)

\* the loop "for block in sorted_blocks[1:]" and the append of the last
\* paragraph that follows it
RECURSIVE GroupLoop(_, _, _, _, _, _)
GroupLoop(sorted_blocks, i, paragraphs, current_para, current_y, y_tolerance) ==
  IF i > Len(sorted_blocks)
  THEN (IF current_para # <<>> THEN Append(paragraphs, current_para) ELSE paragraphs)
  ELSE LET block == sorted_blocks[i] IN
    IF Abs(block.y0 - current_y) <= y_tolerance
    THEN GroupLoop(sorted_blocks, i + 1, paragraphs,
                   Append(current_para, block), current_y, y_tolerance)
    ELSE GroupLoop(sorted_blocks, i + 1, Append(paragraphs, current_para),
                   <<block>>, block.y0, y_tolerance)

\* DOCXGenerator._group_text_into_paragraphs
group_text_into_paragraphs(text_blocks, y_tolerance) ==
  IF text_blocks = <<>> THEN <<>>
  ELSE LET sorted_blocks == SortedBlocks(text_blocks) IN
    GroupLoop(sorted_blocks, 2, <<>>, <<sorted_blocks[1]>>, sorted_blocks[1].y0,
              y_tolerance)

\* The inputs of the grouping: at most MaxBlocks blocks, in any order, with
\* y0 and x0 from small sets; the text of a block names its place in the input.
MaxBlocks == 4

Y0Values == {0, 1, 2, 6, 12, 50}

X0Values == {0, 40}

\* The caller starts from an empty list,
GroupInit == grp = [op |-> "none", text_blocks |-> <<>>, ret |-> <<>>]

\* appends blocks to it
AddTextBlock ==
  /\ grp.op = "none"
  /\ Len(grp.text_blocks) < MaxBlocks
  /\ \E y0 \in Y0Values, x0 \in X0Values :
       grp' = [grp EXCEPT !.text_blocks =
                 Append(@, PDFTextBlock(<<Len(@) + 1>>, x0, y0, x0 + 30, y0 + 12, Arial, 12))]
  /\ UNCHANGED <<fm, pipeVars>>

\* and groups it.
CallGroupTextIntoParagraphs ==
  /\ grp.op = "none"
  /\ grp' = [grp EXCEPT !.op = "_group_text_into_paragraphs",
                        !.ret = group_text_into_paragraphs(grp.text_blocks, Y_TOLERANCE)]
  /\ UNCHANGED <<fm, pipeVars>>

(***************************************************************************)
(* The PDF file and the libraries that read it                             *)
(* (pdfplumber for words, PyMuPDF for images, Tesseract for OCR)           *)
(***************************************************************************)

\* dict.get(key, default) of a word dict of pdfplumber
Get(word, key, default) == IF key \in DOMAIN word THEN word[key] ELSE default

\* The words page.extract_words can give: two words of one line carrying every
\* key the code reads (as in tests/test_ocr_integration_mock.py), and a word
\* that carries no "fontname".
WordNormal ==
  [ text |-> <<"N","o","r","m","a","l">>, x0 |-> 0, y0 |-> 0, x1 |-> 50, y1 |-> 12,
    fontname |-> <<"H","e","l","v","e","t","i","c","a","-","B","o","l","d">>,
    height |-> 12 ]

WordText ==
  [ text |-> <<"T","e","x","t">>, x0 |-> 55, y0 |-> 0, x1 |-> 80, y1 |-> 12, height |-> 12 ]

\* The embedded images of a page, as PyMuPDF finds them. xref_ok: whether
\* doc.extract_image(xref) returns (it raises otherwise); ocr_text: what
\* Tesseract reads in the image. Texts are sequences of characters.
ImageScan ==
  [ data |-> "scan", width |-> 4724, height |-> 7087, ext |-> "png",
    xref_ok |-> TRUE, ocr_text |-> <<" ","O","C","R","\n">> ]

ImageLogo ==
  [ data |-> "logo", width |-> 360, height |-> 180, ext |-> "jpeg",
    xref_ok |-> TRUE, ocr_text |-> <<" ","\n">> ]

ImageDamaged ==
  [ data |-> "damaged", width |-> 100, height |-> 100, ext |-> "png",
    xref_ok |-> FALSE, ocr_text |-> <<>> ]

WordLists == { <<>>, <<WordNormal, WordText>> }

ImageLists == { <<>>, <<ImageScan>>, <<ImageLogo, ImageScan>>, <<ImageDamaged>> }

\* the pages a PDF is made of
PageKinds ==
  { [words |-> w, images |-> i, width |-> 612, height |-> 792] :
      w \in WordLists, i \in ImageLists }

\* the most pages of a PDF
MaxPages == 3

Images == {ImageScan, ImageLogo, ImageDamaged}

\* Image.open(BytesIO(image_data)): the picture the bytes hold
ImageOfBytes(data) == CHOOSE i \in Images : i.data = data

(***************************************************************************)
(* Results of calls. A call returns [exc, ret, fx]: exc is "none" or the   *)
(* exception that left the call, ret the value returned, fx what the call  *)
(* did besides: the OCR runs it made, the number of times it ran           *)
(* extract_images and the number of document handles it left open. The     *)
(* "with pdfplumber.open(...)" blocks close their handle on every path.    *)
(***************************************************************************)

NoFx == [ocr |-> <<>>, image_extractions |-> 0, open_handles |-> 0]

JoinFx(f, g) ==
  [ ocr |-> f.ocr \o g.ocr,
    image_extractions |-> f.image_extractions + g.image_extractions,
    open_handles |-> f.open_handles + g.open_handles ]

Return(ret, fx) == [exc |-> "none", ret |-> ret, fx |-> fx]

Raise(exc, fx) == [exc |-> exc, ret |-> <<>>, fx |-> fx]

(***************************************************************************)
(* OCRProcessor (app/services/ocr_processor.py)                            *)
(***************************************************************************)

\* the names app/models/schemas.py defines
SchemasNames == {"ConversionResponse", "ConversionRequest", "FileInfo"}

\* "import app.services.ocr_processor": the guarded import of pytesseract
\* cannot fail the module, "from app.models.schemas import PDFTextBlock" can.
ImportOcrProcessor ==
  IF "PDFTextBlock" \in SchemasNames THEN "imported" ELSE "ImportError"

\* TESSERACT_AVAILABLE of ocr_processor.py
TESSERACT_AVAILABLE == tesseract # "no_module"

\* OCRProcessor.__init__
OCRProcessor_init(languages) ==
  IF ~TESSERACT_AVAILABLE THEN Raise("ImportError", NoFx)
  ELSE IF tesseract = "no_binary" THEN Raise("RuntimeError", NoFx)
  ELSE Return([languages |-> IF languages = <<>> THEN <<"chi_sim", "eng">> ELSE languages],
              NoFx)

Max(a, b) == IF a >= b THEN a ELSE b

Min(a, b) == IF a <= b THEN a ELSE b

\* max_dimension of _preprocess_image
MAX_DIMENSION == 4000

\* floor(log2(n / d)) for positive integers n, d
RECURSIVE FloorLog2(_, _)
FloorLog2(n, d) ==
  IF n >= 2 * d THEN FloorLog2(n, 2 * d) + 1
  ELSE IF n < d THEN FloorLog2(2 * n, d) - 1
  ELSE 0

\* 2^e modulo m
RECURSIVE Pow2Mod(_, _)
Pow2Mod(e, m) == IF e = 0 THEN 1 % m ELSE (2 * Pow2Mod(e - 1, m)) % m

\* 2^e
RECURSIVE Pow2(_)
Pow2(e) == IF e = 0 THEN 1 ELSE 2 * Pow2(e - 1)

\* int(dim * ratio) with ratio = max_dimension / longest, in IEEE-754 binary64
\* as Python computes it, for longest > max_dimension = 4000 = 125 * 32. The
\* 53-bit significand of ratio is 125 * 2^e / longest rounded to nearest, e =
\* 52 - floor(log2(125 / longest)); r = 125 * 2^e mod longest is what the
\* rounding takes off when it rounds down (2 * r < longest). Where
\* dim * 4000 / longest is no whole number, the errors are too small to change
\* its integer part, a. Where it is the whole number a, the product is
\* a - dim * r / longest units below it, and is rounded to a double below a,
\* which int() truncates to a - 1, when dim * r / longest exceeds half the
\* spacing 2^(la + e - 57) of the doubles below a, la = floor(log2(a)), or one
\* less when a is a power of two.
ScaleDimension(dim, longest) ==
  LET a == (dim * MAX_DIMENSION) \div longest
      b == (dim * MAX_DIMENSION) % longest
      e == 52 - FloorLog2(125, longest)
      r == (125 * Pow2Mod(e, longest)) % longest
      la == IF Pow2(FloorLog2(a, 1)) = a THEN FloorLog2(a, 1) - 1 ELSE FloorLog2(a, 1)
  IN IF b # 0 THEN a
     ELSE IF 2 * r < longest /\ dim * r > longest * Pow2(la + e - 58) THEN a - 1
     ELSE a

\* OCRProcessor._preprocess_image: the size of the image it returns
preprocess_image(size) ==
  IF Max(size[1], size[2]) > MAX_DIMENSION
  THEN << ScaleDimension(size[1], Max(size[1], size[2])),
          ScaleDimension(size[2], Max(size[1], size[2])) >>
  ELSE size

\* OCRProcessor.extract_text_from_image
ocr_extract_text_from_image(image_data, page_number) ==
  LET image == ImageOfBytes(image_data)
      size  == preprocess_image(<<image.width, image.height>>)
      text  == image.ocr_text
  IN IF Strip(text) = <<>> THEN <<>>
     ELSE << [page_number |-> page_number] @@
             PDFTextBlock(Strip(text), 0, 0, size[1], size[2],
                          <<"O","C","R","-","R","e","s","u","l","t">>, 12) >>

(***************************************************************************)
(* PDFProcessor (app/services/pdf_processor.py)                            *)
(***************************************************************************)

\* OCR_AVAILABLE, set when pdf_processor.py is imported
OCR_AVAILABLE == ImportOcrProcessor = "imported"

NoProcessor == [constructed |-> FALSE]

\* PDFProcessor.__init__: the object, or the exception of OCRProcessor()
PDFProcessor_init(enable_ocr, ocr_languages) ==
  LET self_enable_ocr == enable_ocr /\ OCR_AVAILABLE IN
    IF self_enable_ocr
    THEN LET ocr == OCRProcessor_init(ocr_languages) IN
           IF ocr.exc # "none" THEN Raise(ocr.exc, NoFx)
           ELSE Return([constructed |-> TRUE, enable_ocr |-> TRUE,
                        ocr_processor |-> TRUE], NoFx)
    ELSE Return([constructed |-> TRUE, enable_ocr |-> FALSE,
                 ocr_processor |-> FALSE], NoFx)

\* PDFImage
PDFImage(data, width, height, dpi, format, position) ==
  [ data |-> data, width |-> width, height |-> height, dpi |-> dpi,
    format |-> format, position |-> position ]

\* PDFPage
PDFPage(page_number, text_blocks, images, width, height) ==
  [ page_number |-> page_number, text_blocks |-> text_blocks, images |-> images,
    width |-> width, height |-> height,
    has_text |-> Len(text_blocks) > 0, has_images |-> Len(images) > 0 ]

\* PDFProcessor.get_page_count
get_page_count == Return(Len(pdf), NoFx)

\* the loop of extract_images over page.get_images(full=True)
RECURSIVE ExtractImageLoop(_, _, _)
ExtractImageLoop(image_list, i, images) ==
  IF i > Len(image_list) THEN Return(images, NoFx)
  ELSE IF ~image_list[i].xref_ok THEN Raise("ValueError", NoFx)
  ELSE ExtractImageLoop(image_list, i + 1,
         Append(images, PDFImage(image_list[i].data, image_list[i].width,
                                 image_list[i].height, 72, image_list[i].ext,
                                 <<0, 0, 100, 100>>)))

\* fitz.open(self.pdf_path) of extract_images, and doc.close() before each of
\* its two return statements: an exception leaves the loop without a close
WithDocumentHandle(r) ==
  [r EXCEPT !.fx.image_extractions = 1,
            !.fx.open_handles = IF r.exc = "none" THEN 0 ELSE 1]

\* PDFProcessor.extract_images
extract_images(page_number) ==
  WithDocumentHandle(IF page_number >= Len(pdf) THEN Return(<<>>, NoFx)
                     ELSE ExtractImageLoop(pdf[page_number + 1].images, 1, <<>>))

\* the loop of extract_text_blocks over the words of the page
WordBlocks(words) ==
  [ i \in DOMAIN words |->
      PDFTextBlock(Get(words[i], "text", <<>>), Get(words[i], "x0", 0),
                   Get(words[i], "y0", 0), Get(words[i], "x1", 0),
                   Get(words[i], "y1", 0), Get(words[i], "fontname", Arial),
                   Get(words[i], "height", 12)) ]

\* max(images, key=lambda img: img.width * img.height): the first image of
\* the greatest area
LargestImage(images) ==
  LET Area(i) == images[i].width * images[i].height
      first == CHOOSE i \in DOMAIN images :
                 /\ \A j \in DOMAIN images : Area(j) <= Area(i)
                 /\ \A j \in 1..(i - 1) : Area(j) < Area(i)
  IN images[first]

\* A faulty extract_text_blocks: the OCR branch is taken whatever enable_ocr is.
extract_text_blocks_ocr_always(self, page_number) ==
  IF page_number >= Len(pdf) THEN Return(<<>>, NoFx)
  ELSE LET text_blocks == WordBlocks(pdf[page_number + 1].words) IN
    IF Len(text_blocks) = 0
    THEN LET images == extract_images(page_number) IN
      IF images.exc # "none" THEN images
      ELSE IF images.ret # <<>>
      THEN LET largest_image == LargestImage(images.ret) IN
             Return(ocr_extract_text_from_image(largest_image.data, page_number),
                    [images.fx EXCEPT !.ocr = <<[data |-> largest_image.data,
                                                  page_number |-> page_number]>>])
      ELSE Return(text_blocks, images.fx)
    ELSE Return(text_blocks, NoFx)

\* PDFProcessor.extract_text_blocks
extract_text_blocks(self, page_number) ==
  IF page_number >= Len(pdf) THEN Return(<<>>, NoFx)
  ELSE LET text_blocks == WordBlocks(pdf[page_number + 1].words) IN
    IF Len(text_blocks) = 0 /\ self.enable_ocr /\ self.ocr_processor
    THEN LET images == extract_images(page_number) IN
      IF images.exc # "none" THEN images
      ELSE IF images.ret # <<>>
      THEN LET largest_image == LargestImage(images.ret) IN
             Return(ocr_extract_text_from_image(largest_image.data, page_number),
                    [images.fx EXCEPT !.ocr = <<[data |-> largest_image.data,
                                                  page_number |-> page_number]>>])
      ELSE Return(text_blocks, images.fx)
    ELSE Return(text_blocks, NoFx)

\* process_page from "images = self.extract_images(page_number)" on
PageOf(page_number, text_blocks, images, fx) ==
  IF images.exc # "none" THEN Raise(images.exc, fx)
  ELSE IF page_number >= Len(pdf) THEN Raise("IndexError", fx)
  ELSE Return(PDFPage(page_number, text_blocks.ret, images.ret,
                      pdf[page_number + 1].width,
                      pdf[page_number + 1].height), fx)

PageOfTextAndImages(page_number, text_blocks, images) ==
  PageOf(page_number, text_blocks, images, JoinFx(text_blocks.fx, images.fx))

PageOfText(page_number, text_blocks) ==
  IF text_blocks.exc # "none" THEN text_blocks
  ELSE PageOfTextAndImages(page_number, text_blocks, extract_images(page_number))

\* PDFProcessor.process_page
process_page(self, page_number) ==
  PageOfText(page_number, extract_text_blocks(self, page_number))

\* the list comprehension of process_all_pages, from page i on; WithPage is
\* the list with the page process_page gave for i
RECURSIVE ProcessPagesFrom(_, _, _, _)
WithPageJoined(self, i, page_count, done, page, fx) ==
  IF page.exc # "none" THEN Raise(page.exc, fx)
  ELSE ProcessPagesFrom(self, i + 1, page_count, Return(Append(done.ret, page.ret), fx))

WithPage(self, i, page_count, done, page) ==
  WithPageJoined(self, i, page_count, done, page, JoinFx(done.fx, page.fx))

ProcessPagesFrom(self, i, page_count, done) ==
  IF i >= page_count THEN done
  ELSE WithPage(self, i, page_count, done, process_page(self, i))

\* A faulty process_all_pages: the comprehension starts at page 1.
process_all_pages_skips_first(self) ==
  LET page_count == get_page_count IN
    ProcessPagesFrom(self, 1, page_count.ret, Return(<<>>, NoFx))

\* PDFProcessor.process_all_pages
process_all_pages(self) ==
  LET page_count == get_page_count IN
    ProcessPagesFrom(self, 0, page_count.ret, Return(<<>>, NoFx))

(***************************************************************************)
(* DOCXGenerator (app/services/docx_generator.py). The python-docx         *)
(* document is the sequence of the block elements added to its body.       *)
(***************************************************************************)

\* doc.add_paragraph() and the runs added to it with p.add_run
Paragraph(runs) == [kind |-> "paragraph", runs |-> runs, data |-> ""]

\* doc.add_page_break()
PageBreak == [kind |-> "page_break", runs |-> <<>>, data |-> ""]

\* doc.add_picture(image_stream, width=width): no height is passed, so
\* python-docx scales the height by the factor it scales the width with
Picture(data, width) ==
  [kind |-> "picture", runs |-> <<>>, data |-> data, width |-> width, height |-> "scaled"]

\* Inches(n) for a whole number n of inches: a length in EMU, 914400 to the inch
Inches(n) == n * 914400

\* 2^e modulo 9 (2^6 = 64 = 1 modulo 9)
Pow2Mod9(e) == <<1, 2, 4, 8, 7, 5>>[(e % 6) + 1]

\* Inches(img.width / 72) = int((width / 72) * 914400), in IEEE-754 binary64
\* as Python computes it. width / 72 is width / 9 scaled by a power of two; its
\* 53-bit significand is width * 2^(52-k) / 9 rounded to nearest, k =
\* floor(log2(width / 9)), with r = width * 2^(52-k) mod 9 the ninths lost
\* (r <= 4) or gained (9 - r) by that rounding. The product with 914400 =
\* 28575 * 32 is then 3175 * width - 3175 * r / 9 units of 2^(k-52), rounded to
\* the spacing 2^(j-k) of the doubles near 3175 * width, j =
\* floor(log2(3175 * width)): it falls below the exact 3175 * width when
\* 3175 * r exceeds half the spacing, which needs r in {3, 4} and j - k = 14,
\* and int() then truncates to one EMU less than 12700 * width.
InchesOfPixels(width) ==
  IF width = 0 THEN 0
  ELSE
    LET k == FloorLog2(width, 9)
        j == FloorLog2(3175 * width, 1)
        r == ((width % 9) * Pow2Mod9(52 - k)) % 9
    IN IF j - k = 14 /\ r \in {3, 4} THEN 12700 * width - 1 ELSE 12700 * width

\* the image formats python-docx can embed; add_picture raises on others
DocxImageFormats == {"png", "jpeg", "gif", "bmp", "tiff"}

\* DOCXGenerator._add_image_to_document: the elements it adds to the document.
\* doc.add_picture opens the paragraph that is to hold the picture before it
\* reads the image (python-docx: self.add_paragraph().add_run(), then
\* run.add_picture), so when it raises that paragraph is left, empty; the
\* except clause then skips the doc.add_paragraph() of line 133.
add_image_to_document(img) ==
  LET max_width == Inches(6)
      width == Min(max_width, InchesOfPixels(img.width))
  IN IF img.format \in DocxImageFormats
     THEN <<Picture(img.data, width), Paragraph(<<>>)>>
     ELSE <<Paragraph(<<>>)>>

\* the runs of one paragraph: p.add_run(block.text + " ") with the mapped font
ParagraphRuns(para_blocks) ==
  [ i \in DOMAIN para_blocks |->
      [ text      |-> para_blocks[i].text \o <<" ">>,
        font_name |-> map_font(para_blocks[i].font_name),
        font_size |-> para_blocks[i].font_size ] ]

RECURSIVE AddImages(_)
AddImages(images) ==
  IF images = <<>> THEN <<>>
  ELSE add_image_to_document(Head(images)) \o AddImages(Tail(images))

\* DOCXGenerator._add_page_to_document: the elements it adds to the document
add_page_to_document(page) ==
  LET paragraphs == group_text_into_paragraphs(page.text_blocks, Y_TOLERANCE) IN
    [k \in DOMAIN paragraphs |-> Paragraph(ParagraphRuns(paragraphs[k]))]
      \o AddImages(page.images)

\* the loop "for page in pages" of create_document, from the i-th page on
RECURSIVE AddPagesFrom(_, _)
AddPagesFrom(pages, i) ==
  IF i > Len(pages) THEN <<>>
  ELSE add_page_to_document(pages[i])
       \o (IF pages[i].page_number < Len(pages) - 1 THEN <<PageBreak>> ELSE <<>>)
       \o AddPagesFrom(pages, i + 1)

\* what doc.save(output_path) leaves at output_path: the document, or on a
\* failure (disk = "fail_nothing", "fail_partial") nothing or a truncated file
NoFile == [exists |-> FALSE, complete |-> FALSE, body |-> <<>>]

SavedFile(body, disk) ==
  IF disk = "ok" THEN [exists |-> TRUE, complete |-> TRUE, body |-> body]
  ELSE IF disk = "fail_partial" THEN [exists |-> TRUE, complete |-> FALSE, body |-> <<>>]
  ELSE NoFile

DiskOutcomes == {"ok", "fail_nothing", "fail_partial"}

\* DOCXGenerator.create_document: ret is the file at output_path afterwards
create_document(pages, disk) ==
  LET body == AddPagesFrom(pages, 1) IN
    IF disk = "ok" THEN Return(SavedFile(body, disk), NoFx)
    ELSE [Raise("OSError", NoFx) EXCEPT !.ret = SavedFile(body, disk)]

(***************************************************************************)
(* The client of the library: it writes a PDF, constructs a PDFProcessor   *)
(* on it and calls its methods, and hands the pages of process_all_pages   *)
(* to DOCXGenerator.create_document.                                       *)
(***************************************************************************)

NoCall == [op |-> "none", arg |-> <<>>, exc |-> "none", ret |-> <<>>, fx |-> NoFx]

Called(op, arg, r) == [op |-> op, arg |-> arg, exc |-> r.exc, ret |-> r.ret, fx |-> r.fx]

NoResponse == [status_code |-> 0, status |-> "none", file_id |-> "none", pages_processed |-> 0]

\* settings.file_ttl_hours (app/core/config.py)
FILE_TTL_HOURS == 1

\* clock: the hours gone by; tasks: the background tasks of the response that
\* have not finished, in the order of add_task; wake: the hour at which the
\* sleep of the first of them ends
\* request: the name and the length of the upload; pipeline_runs: how often the
\* handler has started the pipeline
NoRequest == [received |-> FALSE, filename |-> <<>>, size |-> 0]

Request(filename, size) == [received |-> TRUE, filename |-> filename, size |-> size]

HttpInit == http = [response |-> NoResponse, upload_exists |-> FALSE, output |-> NoFile,
                    tasks |-> <<>>, download |-> 0, clock |-> 0, wake |-> 0,
                    request |-> NoRequest, pipeline_runs |-> 0]

PipeInit ==
  /\ pdf = <<>>
  /\ tesseract \in {"ok", "no_module", "no_binary"}
  /\ processor = NoProcessor
  /\ call = NoCall
  /\ HttpInit
  /\ page_list = <<>>

Untouched == ~processor.constructed /\ call.op = "none" /\ http.response = NoResponse

\* one more page is written to the PDF
AddPage ==
  /\ Untouched
  /\ Len(pdf) < MaxPages
  /\ \E page \in PageKinds : pdf' = Append(pdf, page)
  /\ UNCHANGED <<tesseract, processor, call, http, page_list, fm, grp>>

\* PDFProcessor(pdf_path, enable_ocr=...); requested keeps the argument
Construct ==
  /\ Untouched
  /\ \E enable_ocr \in BOOLEAN :
       LET r == PDFProcessor_init(enable_ocr, <<>>) IN
         /\ processor' = IF r.exc = "none"
                         THEN r.ret @@ [requested |-> enable_ocr]
                         ELSE processor
         /\ call' = IF r.exc = "none" THEN call
                    ELSE Called("PDFProcessor", enable_ocr, r)
  /\ UNCHANGED <<pdf, tesseract, http, page_list, fm, grp>>

CanCall == processor.constructed /\ call.op = "none"

\* page numbers a caller passes: those of the PDF and the first one beyond
PageArgs == 0..Len(pdf)

CallGetPageCount ==
  /\ CanCall
  /\ call' = Called("get_page_count", <<>>, get_page_count)
  /\ UNCHANGED <<pdf, tesseract, processor, http, page_list, fm, grp>>

CallExtractTextBlocks ==
  /\ CanCall
  /\ \E page_number \in PageArgs :
       call' = Called("extract_text_blocks", page_number,
                      extract_text_blocks(processor, page_number))
  /\ UNCHANGED <<pdf, tesseract, processor, http, page_list, fm, grp>>

CallExtractImages ==
  /\ CanCall
  /\ \E page_number \in PageArgs :
       call' = Called("extract_images", page_number, extract_images(page_number))
  /\ UNCHANGED <<pdf, tesseract, processor, http, page_list, fm, grp>>

CallProcessPage ==
  /\ CanCall
  /\ \E page_number \in PageArgs :
       call' = Called("process_page", page_number, process_page(processor, page_number))
  /\ UNCHANGED <<pdf, tesseract, processor, http, page_list, fm, grp>>

CallProcessAllPages ==
  /\ CanCall
  /\ call' = Called("process_all_pages", <<>>, process_all_pages(processor))
  /\ UNCHANGED <<pdf, tesseract, processor, http, page_list, fm, grp>>

\* DOCXGenerator().create_document(pages, output_path) on the pages returned
CallCreateDocument ==
  /\ call.op = "process_all_pages"
  /\ call.exc = "none"
  /\ \E disk \in DiskOutcomes :
       call' = Called("create_document", call.ret, create_document(call.ret, disk))
  /\ UNCHANGED <<pdf, tesseract, processor, http, page_list, fm, grp>>

\* a client of the OCR module alone: "from app.services.ocr_processor import
\* OCRProcessor", OCRProcessor(), then extract_text_from_image on the bytes of
\* an image
UseOcrProcessor(image_data, page_number) ==
  IF ImportOcrProcessor # "imported" THEN Raise(ImportOcrProcessor, NoFx)
  ELSE LET ocr == OCRProcessor_init(<<>>) IN
         IF ocr.exc # "none" THEN ocr
         ELSE Return(ocr_extract_text_from_image(image_data, page_number), NoFx)

CallOcrExtractTextFromImage ==
  /\ Untouched
  /\ pdf = <<>>
  /\ \E image \in Images :
       call' = Called("extract_text_from_image", image.data, UseOcrProcessor(image.data, 0))
  /\ UNCHANGED <<pdf, tesseract, processor, http, page_list, fm, grp>>

\* the sizes of the images _preprocess_image is given
PreprocessDimensions == {100, 3000, 4000, 4001, 4210, 4724, 7087, 8000, 8001}

\* _preprocess_image on an image of a given size
CallPreprocessImage ==
  /\ Untouched
  /\ pdf = <<>>
  /\ \E w \in PreprocessDimensions, h \in PreprocessDimensions :
       call' = Called("_preprocess_image", <<w, h>>, Return(preprocess_image(<<w, h>>), NoFx))
  /\ UNCHANGED <<pdf, tesseract, processor, http, page_list, fm, grp>>

\* s begins with prefix (Python: s.startswith(prefix))
StartsWith(s, prefix) ==
  Len(s) >= Len(prefix) /\ SubSeq(s, 1, Len(prefix)) = prefix

\* line.split(':')[1]: what stands between the first colon and the next
AfterFirstColon(line) ==
  LET c1 == CHOOSE i \in DOMAIN line :
              line[i] = ":" /\ \A j \in 1..(i - 1) : line[j] # ":"
      rest == SubSeq(line, c1 + 1, Len(line))
  IN IF \E i \in DOMAIN rest : rest[i] = ":"
     THEN SubSeq(rest, 1, (CHOOSE i \in DOMAIN rest :
                             rest[i] = ":" /\ \A j \in 1..(i - 1) : rest[j] # ":") - 1)
     ELSE rest

\* the scripts Tesseract's orientation and script detection can name
Han == <<"H","a","n">>
Latin == <<"L","a","t","i","n">>
Vietnamese == <<"V","i","e","t","n","a","m","e","s","e">>
Cyrillic == <<"C","y","r","i","l","l","i","c">>

\* what pytesseract.image_to_osd gives for an image: it raises, or returns
\* lines, with a "Script: <name>" line when a script was detected (script is
\* the script detected, <<>> for none)
OsdLines(script) ==
  << <<"O","r","i","e","n","t","a","t","i","o","n"," ","i","n"," ","d","e","g","r","e","e","s",":"," ","0">> >>
  \o (IF script = <<>> THEN <<>>
      ELSE << <<"S","c","r","i","p","t",":"," ">> \o script, <<"S","c","r","i","p","t"," ","c","o","n","f","i","d","e","n","c","e",":"," ","2",".","5","0">> >>)

OsdOutcomes ==
  { [raises |-> TRUE, script |-> <<>>, lines |-> <<>>] }
  \cup { [raises |-> FALSE, script |-> sc, lines |-> OsdLines(sc)] :
           sc \in {<<>>, Han, Latin, Vietnamese, Cyrillic} }

\* script_map.get(script, 'eng')
ScriptMapGet(script) ==
  IF script = Han THEN "chi_sim"
  ELSE IF script = Latin THEN "eng"
  ELSE IF script = Vietnamese THEN "vie"
  ELSE "eng"

\* the loop of detect_language over the lines of the OSD output, from line i
RECURSIVE DetectLoop(_, _)
DetectLoop(lines, i) ==
  IF i > Len(lines) THEN "eng"
  ELSE IF StartsWith(lines[i], <<"S","c","r","i","p","t",":">>) THEN ScriptMapGet(Strip(AfterFirstColon(lines[i])))
  ELSE DetectLoop(lines, i + 1)

\* detect_language that returns on the first line that begins with "Script"
\* and knows no script but Latin (not the code)
RECURSIVE DetectLoopAnyScriptLine(_, _)
DetectLoopAnyScriptLine(lines, i) ==
  IF i > Len(lines) THEN "eng"
  ELSE IF StartsWith(lines[i], <<"S","c","r","i","p","t">>) THEN "eng"
  ELSE DetectLoopAnyScriptLine(lines, i + 1)

detect_language_latin_only(osd) ==
  IF osd.raises THEN Return("eng", NoFx)
  ELSE Return(DetectLoopAnyScriptLine(osd.lines, 1), NoFx)

\* OCRProcessor.detect_language: every exception is caught and gives 'eng'
detect_language(osd) ==
  IF osd.raises THEN Return("eng", NoFx)
  ELSE Return(DetectLoop(osd.lines, 1), NoFx)

\* detect_language on an image
CallDetectLanguage ==
  /\ Untouched
  /\ pdf = <<>>
  /\ \E osd \in OsdOutcomes :
       call' = Called("detect_language", osd, detect_language(osd))
  /\ UNCHANGED <<pdf, tesseract, processor, http, page_list, fm, grp>>

\* the caller is done with the result of the call
DiscardResult ==
  /\ call.op # "none"
  /\ call' = NoCall
  /\ UNCHANGED <<pdf, tesseract, processor, http, page_list, fm, grp>>

(***************************************************************************)
(* POST /convert (app/api/endpoints/convert.py): the handler runs without  *)
(* yielding between the read of the upload and its response.               *)
(***************************************************************************)

\* settings.max_file_size_mb and settings.max_file_size_bytes
max_file_size_mb == 150

max_file_size_bytes == max_file_size_mb * 1024 * 1024

UpperLetters ==
  <<"A","B","C","D","E","F","G","H","I","J","K","L","M",
    "N","O","P","Q","R","S","T","U","V","W","X","Y","Z">>

LowerLetters ==
  <<"a","b","c","d","e","f","g","h","i","j","k","l","m",
    "n","o","p","q","r","s","t","u","v","w","x","y","z">>

\* str.lower()
ToLower(s) ==
  [ i \in DOMAIN s |->
      IF s[i] \in Upper
      THEN LowerLetters[CHOOSE k \in DOMAIN UpperLetters : UpperLetters[k] = s[i]]
      ELSE s[i] ]

\* s.endswith(suffix)
EndsWith(s, suffix) ==
  Len(s) >= Len(suffix) /\ SubSeq(s, Len(s) - Len(suffix) + 1, Len(s)) = suffix

\* file.filename.lower().endswith('.pdf')
IsPdfName(filename) == EndsWith(ToLower(filename), <<".","p","d","f">>)

\* the names and the lengths of the uploads: lengths at and just over the
\* limit
Filenames == { <<"a",".","p","d","f">>, <<"A",".","P","D","F">>, <<"a",".","t","x","t">>, <<"p","d","f">> }

UploadSizes == {max_file_size_bytes, max_file_size_bytes + 1}

\* A faulty handler: the exception of the pipeline is swallowed and the
\* response reports success.
convert_pdf_to_docx_ignores_failure(filename, size, disk) ==
  IF ~IsPdfName(filename)
  THEN [http EXCEPT !.response = [NoResponse EXCEPT !.status_code = 400],
                    !.request = Request(filename, size)]
  ELSE IF size > max_file_size_bytes
  THEN [http EXCEPT !.response = [NoResponse EXCEPT !.status_code = 413],
                    !.request = Request(filename, size)]
  ELSE
    LET file_id == "id1"
        made  == PDFProcessor_init(TRUE, <<>>)
        pages == IF made.exc = "none" THEN process_all_pages(made.ret) ELSE made
        saved == IF pages.exc = "none" THEN create_document(pages.ret, disk) ELSE pages
    IN [ response |-> [ status_code |-> 200, status |-> "completed",
                        file_id |-> file_id,
                        pages_processed |-> Len(pages.ret) ],
         upload_exists |-> TRUE,
         output |-> IF pages.exc = "none" THEN saved.ret ELSE NoFile,
         tasks |-> <<"upload", "output">>,
         download |-> http.download,
         clock |-> http.clock,
         wake |-> http.clock + FILE_TTL_HOURS,
         request |-> Request(filename, size),
         pipeline_runs |-> http.pipeline_runs + 1 ]

\* convert_pdf_to_docx once the upload has passed validation: the file is
\* saved under a new identifier and the pipeline runs on it; pages is the
\* outcome of process_all_pages, saved that of create_document
Responded(filename, size, pages, saved) ==
  IF saved.exc = "none"
  THEN [ response |-> [ status_code |-> 200, status |-> "completed",
                        file_id |-> "id1",
                        pages_processed |-> Len(pages.ret) ],
         upload_exists |-> TRUE,
         output |-> saved.ret,
         tasks |-> <<"upload", "output">>,
         download |-> http.download,
         clock |-> http.clock,
         wake |-> http.clock + FILE_TTL_HOURS,
         request |-> Request(filename, size),
         pipeline_runs |-> http.pipeline_runs + 1 ]
  ELSE [ response |-> [NoResponse EXCEPT !.status_code = 500],
         upload_exists |-> FALSE,
         output |-> IF pages.exc = "none" THEN saved.ret ELSE NoFile,
         tasks |-> <<>>,
         download |-> http.download,
         clock |-> http.clock,
         wake |-> http.wake,
         request |-> Request(filename, size),
         pipeline_runs |-> http.pipeline_runs + 1 ]

Generated(filename, size, disk, pages) ==
  Responded(filename, size, pages,
            IF pages.exc = "none" THEN create_document(pages.ret, disk) ELSE pages)

Processed(filename, size, disk, made) ==
  Generated(filename, size, disk,
            IF made.exc = "none" THEN process_all_pages(made.ret) ELSE made)

save_and_convert(filename, size, disk) ==
  Processed(filename, size, disk, PDFProcessor_init(TRUE, <<>>))

\* A faulty handler: the upload is written to the upload directory, under a
\* new identifier, before its size is checked.
convert_pdf_to_docx_saves_before_size_check(filename, size, disk) ==
  IF IsPdfName(filename) /\ size > max_file_size_bytes
  THEN [http EXCEPT !.response = [NoResponse EXCEPT !.status_code = 413],
                    !.request = Request(filename, size),
                    !.upload_exists = TRUE]
  ELSE IF ~IsPdfName(filename)
  THEN [http EXCEPT !.response = [NoResponse EXCEPT !.status_code = 400],
                    !.request = Request(filename, size)]
  ELSE save_and_convert(filename, size, disk)

\* POST /convert
convert_pdf_to_docx(filename, size, disk) ==
  IF ~IsPdfName(filename)
  THEN [http EXCEPT !.response = [NoResponse EXCEPT !.status_code = 400],
                    !.request = Request(filename, size)]
  ELSE IF size > max_file_size_bytes
  THEN [http EXCEPT !.response = [NoResponse EXCEPT !.status_code = 413],
                    !.request = Request(filename, size)]
  ELSE save_and_convert(filename, size, disk)

\* a client uploads the PDF
ConvertRequest ==
  /\ Untouched
  /\ \E filename \in Filenames, size \in UploadSizes, disk \in DiskOutcomes :
       http' = convert_pdf_to_docx(filename, size, disk)
  /\ UNCHANGED <<pdf, tesseract, processor, call, page_list, fm, grp>>

\* download_converted_file: the status of the response
download_converted_file(file_id) ==
  LET exists == file_id = "id1" /\ http.output.exists IN
    IF ~exists THEN 404 ELSE 200

\* a client asks for the document of the conversion, whatever the answer to
\* its upload was
DownloadRequest ==
  /\ http.response # NoResponse
  /\ http.download = 0
  /\ http' = [http EXCEPT !.download = download_converted_file("id1")]
  /\ UNCHANGED <<pdf, tesseract, processor, call, page_list, fm, grp>>

\* the hours the service is watched after a response
MaxClock == 3

\* an hour goes by; a task whose sleep has ended runs before the next hour
Tick ==
  /\ http.response # NoResponse
  /\ http.clock < MaxClock
  /\ http.tasks = <<>> \/ http.clock < http.wake
  /\ http' = [http EXCEPT !.clock = @ + 1]
  /\ UNCHANGED <<pdf, tesseract, processor, call, page_list, fm, grp>>

\* cleanup_file after its sleep: it unlinks its file; the background tasks of
\* a response run one after the other (Starlette's BackgroundTasks awaits
\* each task in turn), so the sleep of the next task starts now
CleanupFile ==
  /\ http.tasks # <<>>
  /\ http.clock >= http.wake
  /\ http' = [http EXCEPT
       !.upload_exists = IF Head(http.tasks) = "upload" THEN FALSE ELSE @,
       !.output = IF Head(http.tasks) = "output" THEN NoFile ELSE @,
       !.tasks = Tail(@),
       !.wake = http.clock + FILE_TTL_HOURS]
  /\ UNCHANGED <<pdf, tesseract, processor, call, page_list, fm, grp>>

PipeIdle == PipeInit /\ tesseract = "ok"

(***************************************************************************)
(* A caller of DOCXGenerator.create_document that puts the list of pages   *)
(* together itself (a selection of pages, pages in another order): the     *)
(* page_number of a page need not be its place in the list.                *)
(***************************************************************************)

\* an image in a format PyMuPDF extracts and python-docx cannot read (JPEG 2000)
ImageJpx ==
  [ data |-> "jpx", width |-> 200, height |-> 100, ext |-> "jpx",
    xref_ok |-> TRUE, ocr_text |-> <<>> ]

\* the PDFImage extract_images makes of an embedded image
PDFImageOf(i) == PDFImage(i.data, i.width, i.height, 72, i.ext, <<0, 0, 100, 100>>)

\* what such a page holds: nothing, or one line of text and one image, or an
\* image python-docx cannot read followed by one it can, or the two the other
\* way round
PageContents ==
  { [text_blocks |-> <<>>, images |-> <<>>],
    [text_blocks |-> WordBlocks(<<WordNormal, WordText>>),
     images |-> <<PDFImage(ImageLogo.data, ImageLogo.width, ImageLogo.height, 72,
                           ImageLogo.ext, <<0, 0, 100, 100>>)>>],
    [text_blocks |-> <<>>, images |-> <<PDFImageOf(ImageJpx), PDFImageOf(ImageLogo)>>],
    [text_blocks |-> <<>>, images |-> <<PDFImageOf(ImageLogo), PDFImageOf(ImageJpx)>>] }

AppendPage ==
  /\ call.op = "none"
  /\ Len(page_list) < MaxPages
  /\ \E page_number \in 0..MaxPages, content \in PageContents :
       page_list' = Append(page_list, PDFPage(page_number, content.text_blocks,
                                              content.images, 612, 792))
  /\ UNCHANGED <<pdf, tesseract, processor, call, http, fm, grp>>

CallCreateDocumentOnPages ==
  /\ call.op = "none"
  /\ \E disk \in DiskOutcomes :
       call' = Called("create_document", page_list, create_document(page_list, disk))
  /\ UNCHANGED <<pdf, tesseract, processor, http, page_list, fm, grp>>

\* the widest of the small images
MaxWidth == 80

\* pixel widths of images: the small ones, and 360 (5 inches), 431, 432
\* (6 inches), 720 and the 4724 of a page scanned at 600 dpi
ImageWidths == (1..MaxWidth) \cup {360, 431, 432, 720, 4724}

ImageHeights == {1, 180}

\* _add_image_to_document on a new document
CallAddImageToDocument ==
  /\ call.op = "none"
  /\ page_list = <<>>
  /\ \E w \in ImageWidths, h \in ImageHeights, ext \in {"png", "jpx"} :
       LET img == PDFImage("img", w, h, 72, ext, <<0, 0, 100, 100>>) IN
         call' = Called("_add_image_to_document", img,
                        Return(add_image_to_document(img), NoFx))
  /\ UNCHANGED <<pdf, tesseract, processor, http, page_list, fm, grp>>

FontIdle == fm = [op |-> "none", raw |-> <<>>, ret |-> <<>>]

GroupIdle == grp = [op |-> "none", text_blocks |-> <<>>, ret |-> <<>>]

(***************************************************************************)
(* The specifications. SpecFont: calls of the FontMapper class methods.    *)
(* SpecGroup: calls of _group_text_into_paragraphs. Spec: the extraction   *)
(* and assembly pipeline, called as a library and through POST /convert.   *)
(* SpecDocx: create_document on lists of pages put together by the caller. *)
(***************************************************************************)

InitFont == FontInit /\ GroupIdle /\ PipeIdle

NextFont == CallCleanFontName \/ CallMapFont \/ CallGetFontInfo

SpecFont == InitFont /\ [][NextFont]_vars

InitGroup == GroupInit /\ FontIdle /\ PipeIdle

NextGroup == AddTextBlock \/ CallGroupTextIntoParagraphs

SpecGroup == InitGroup /\ [][NextGroup]_vars

Init == PipeInit /\ FontIdle /\ GroupIdle

Next ==
  \/ AddPage
  \/ Construct
  \/ CallGetPageCount
  \/ CallExtractTextBlocks
  \/ CallExtractImages
  \/ CallProcessPage
  \/ CallProcessAllPages
  \/ CallCreateDocument
  \/ CallOcrExtractTextFromImage
  \/ CallPreprocessImage
  \/ CallDetectLanguage
  \/ DiscardResult
  \/ ConvertRequest
  \/ DownloadRequest
  \/ Tick
  \/ CleanupFile

Spec == Init /\ [][Next]_vars

InitDocx == PipeIdle /\ FontIdle /\ GroupIdle

NextDocx == AppendPage \/ CallCreateDocumentOnPages \/ CallAddImageToDocument

SpecDocx == InitDocx /\ [][NextDocx]_vars

(***************************************************************************)
(* Properties of the pipeline, checked under Spec (C2 under SpecDocx).     *)
(***************************************************************************)

IsBreak(e) == e.kind = "page_break"

IsPicture(e) == e.kind = "picture"

IsParagraph(e) == e.kind = "paragraph"

\* the parts of a document body that its page breaks separate
RECURSIVE Sections(_)
Sections(body) ==
  IF \A i \in DOMAIN body : ~IsBreak(body[i]) THEN <<body>>
  ELSE LET b == CHOOSE i \in DOMAIN body :
                  IsBreak(body[i]) /\ \A j \in 1..(i - 1) : ~IsBreak(body[j])
       IN <<SubSeq(body, 1, b - 1)>> \o Sections(SubSeq(body, b + 1, Len(body)))

BreakCount(body) == Len(SelectSeq(body, IsBreak))

\* the image bytes of the pictures of a section, in order
PictureData(section) ==
  LET pics == SelectSeq(section, IsPicture) IN [i \in DOMAIN pics |-> pics[i].data]

\* the texts of the runs of a section, in order
RECURSIVE RunTexts(_)
RunTexts(section) ==
  IF section = <<>> THEN <<>>
  ELSE [i \in DOMAIN Head(section).runs |-> Head(section).runs[i].text]
       \o RunTexts(Tail(section))

SeqRange(s) == { s[i] : i \in DOMAIN s }

\* section holds what page i (from 0) of the PDF holds: its images in order,
\* and, where the page has native words, one run for each of them
SectionShowsPage(section, i) ==
  LET page == pdf[i + 1] IN
    /\ PictureData(section) = [k \in DOMAIN page.images |-> page.images[k].data]
    /\ page.words # <<>> =>
         /\ Len(RunTexts(section)) = Len(page.words)
         /\ SeqRange(RunTexts(section))
              = { page.words[k].text \o <<" ">> : k \in DOMAIN page.words }

\* body holds the pages of the PDF, each once, in the order 0..n-1
BodyShowsEveryPage(body) ==
  LET n == Len(pdf) IN
    IF n = 0 THEN body = <<>>
    ELSE /\ Len(Sections(body)) = n
         /\ \A i \in 0..(n - 1) : SectionShowsPage(Sections(body)[i + 1], i)

IsEmptyPage(page) == page.words = <<>> /\ page.images = <<>>

\* C1: for a PDF of n pages, process_all_pages followed by create_document
\* emits the content of every page exactly once, in the order 0..n-1, pages
\* without text and images included: the pages handed over are numbered
\* 0..n-1 and the document saved has one section for each, in that order.
C1_EveryPageOnceInOrder ==
  (call.op = "create_document" /\ call.exc = "none") =>
    /\ Len(call.arg) = Len(pdf)
    /\ \A i \in DOMAIN call.arg : call.arg[i].page_number = i - 1
    /\ call.ret.complete
    /\ BodyShowsEveryPage(call.ret.body)

\* a document of a three-page PDF whose middle page is empty has been saved
C1_Witness ==
  /\ call.op = "create_document"
  /\ call.exc = "none"
  /\ Len(pdf) = 3
  /\ ~IsEmptyPage(pdf[1])
  /\ IsEmptyPage(pdf[2])
  /\ ~IsEmptyPage(pdf[3])
  /\ Len(Sections(call.ret.body)) = 3
  /\ Sections(call.ret.body)[2] = <<>>

\* C2: for every list of pages passed to create_document, the document has
\* exactly len(pages)-1 page breaks, one between each two consecutive pages
\* and none after the last, whatever the page_number values of the pages.
C2_BreakAfterEveryPageButTheLast ==
  (call.op = "create_document" /\ call.exc = "none" /\ call.arg # <<>>) =>
    LET body == call.ret.body IN
      /\ BreakCount(body) = Len(call.arg) - 1
      /\ Len(Sections(body)) = Len(call.arg)
      /\ \A i \in DOMAIN call.arg :
           Sections(body)[i] = add_page_to_document(call.arg[i])

\* some image of the PDF cannot be extracted: process_page raises on its page
PdfHasDamagedImage ==
  \E i \in DOMAIN pdf : \E k \in DOMAIN pdf[i].images : ~pdf[i].images[k].xref_ok

\* the cleanup task has removed the document of a successful conversion
OutputCleanedUp == http.response.status_code = 200 /\ http.tasks = <<>>

\* C3: whenever /convert reports "completed", the document stored (until the
\* cleanup removes it) holds a section for every page of the input and
\* pages_processed is the page count; if the extraction of a page or the
\* saving raises, no success is reported (the response is the failure, 500).
C3_SuccessMeansCompleteDocument ==
  /\ http.response.status = "completed" =>
       /\ http.response.status_code = 200
       /\ http.response.pages_processed = Len(pdf)
       /\ ~OutputCleanedUp =>
            /\ http.output.exists /\ http.output.complete
            /\ BodyShowsEveryPage(http.output.body)
  /\ (http.response.status_code \in {200, 500}
        /\ (PdfHasDamagedImage \/ (~http.output.complete /\ ~OutputCleanedUp))) =>
       /\ http.response.status_code = 500
       /\ http.response.status # "completed"

\* /convert has reported "completed" for a three-page PDF whose last page is
\* empty
C3_Witness ==
  /\ http.response.status = "completed"
  /\ http.response.pages_processed = 3
  /\ Len(pdf) = 3
  /\ IsEmptyPage(pdf[3])
  /\ Len(Sections(http.output.body)) = 3

\* every image of the page can be extracted
PageImagesExtractable(page) == \A k \in DOMAIN page.images : page.images[k].xref_ok

\* C4: on a processor constructed with enable_ocr=True on a host where
\* Tesseract is installed, extract_text_blocks
\* runs the OCR engine exactly once, and returns its output, if and only if
\* the page has no native words and at least one image; with native words the
\* OCR engine is not run and the native blocks are returned in order.
C4_OcrRunsOnceIffNoWordsAndAnImage ==
  (call.op = "extract_text_blocks" /\ processor.requested /\ tesseract = "ok"
     /\ call.arg < Len(pdf) /\ PageImagesExtractable(pdf[call.arg + 1])) =>
    LET page == pdf[call.arg + 1] IN
      /\ call.exc = "none"
      /\ Len(call.fx.ocr) <= 1
      /\ Len(call.fx.ocr) = 1 <=> (page.words = <<>> /\ page.images # <<>>)
      /\ Len(call.fx.ocr) = 1 =>
           call.ret = ocr_extract_text_from_image(call.fx.ocr[1].data, call.arg)
      /\ page.words # <<>> => call.ret = WordBlocks(page.words)

\* C5: with OCR disabled, or on a page without images, extract_text_blocks on
\* a page without native words returns the empty list, does not raise and
\* does not run OCR; with OCR disabled it does not run extract_images either.
C5_NoWordsNoOcrGivesEmptyList ==
  (call.op = "extract_text_blocks" /\ call.arg < Len(pdf)
     /\ pdf[call.arg + 1].words = <<>>
     /\ (~processor.enable_ocr \/ pdf[call.arg + 1].images = <<>>)) =>
    /\ call.exc = "none"
    /\ call.ret = <<>>
    /\ call.fx.ocr = <<>>
    /\ ~processor.enable_ocr => call.fx.image_extractions = 0

\* extract_text_blocks has returned from a page that holds no words and one
\* image, on a processor whose OCR is disabled
C5_Witness ==
  /\ call.op = "extract_text_blocks"
  /\ call.arg < Len(pdf)
  /\ ~processor.enable_ocr
  /\ pdf[call.arg + 1].words = <<>>
  /\ Len(pdf[call.arg + 1].images) = 1
  /\ call.exc = "none"
  /\ call.ret = <<>>

(***************************************************************************)
(* Properties of FontMapper, checked under SpecFont.                       *)
(***************************************************************************)

\* C7: for every font name of WEB_SAFE_FONTS, map_font(name) = name: cleaning
\* alters none of the nine names.
C7_WebSafeFontUnchanged ==
  (fm.op = "map_font" /\ fm.raw \in WEB_SAFE_FONTS) => fm.ret = fm.raw

\* map_font("Comic Sans MS") has returned "Comic Sans MS"
C7_Witness ==
  /\ fm.op = "map_font"
  /\ fm.raw = <<"C","o","m","i","c"," ","S","a","n","s"," ","M","S">>
  /\ fm.ret = fm.raw

\* C8: for every entry (k, v) of FONT_SUBSTITUTION, map_font(k) = v and
\* get_font_info(k)["reason"] = "substituted".
C8_EverySubstitutionEntryResolves ==
  \A e \in FONT_SUBSTITUTION :
    fm.raw = e[1] =>
      /\ fm.op = "map_font" => fm.ret = e[2]
      /\ fm.op = "get_font_info" => fm.ret.reason = "substituted"

\* C9 as stated: for every font name that is in neither table, map_font(name)
\* = "Arial" and get_font_info(name)["reason"] = "fallback".
C9_NameInNeitherTableFallsBack ==
  fm.raw \notin WEB_SAFE_FONTS \cup SubstitutionKeys =>
    /\ fm.op = "map_font" => fm.ret = Arial
    /\ fm.op = "get_font_info" => fm.ret.reason = "fallback"

\* C9 as amended: for every font name whose cleaned form (_clean_font_name) is
\* in neither table, map_font(name) = "Arial" and
\* get_font_info(name)["reason"] = "fallback".
C9_CleanedNameInNeitherTableFallsBack ==
  clean_font_name(fm.raw) \notin WEB_SAFE_FONTS \cup SubstitutionKeys =>
    /\ fm.op = "map_font" => fm.ret = Arial
    /\ fm.op = "get_font_info" =>
         fm.ret.reason = "fallback" /\ fm.ret.mapped = Arial

\* get_font_info("SomeRandomFont123") has reported the fallback to "Arial"
C9_Witness ==
  /\ fm.op = "get_font_info"
  /\ fm.raw = <<"S","o","m","e","R","a","n","d","o","m","F","o","n","t","1","2","3">>
  /\ fm.ret.cleaned \notin WEB_SAFE_FONTS \cup SubstitutionKeys
  /\ fm.ret.reason = "fallback"
  /\ fm.ret.mapped = Arial

\* C10: map_font returns a member of WEB_SAFE_FONTS for every input (so every
\* value of FONT_SUBSTITUTION that it can return is in WEB_SAFE_FONTS).
C10_MapFontReturnsWebSafeFont ==
  fm.op = "map_font" => fm.ret \in WEB_SAFE_FONTS

(***************************************************************************)
(* Properties of _group_text_into_paragraphs, checked under SpecGroup.     *)
(***************************************************************************)

\* the blocks of the paragraphs, one after the other
RECURSIVE Flatten(_)
Flatten(paragraphs) ==
  IF paragraphs = <<>> THEN <<>> ELSE Head(paragraphs) \o Flatten(Tail(paragraphs))

Y0sOf(blocks) == [i \in DOMAIN blocks |-> blocks[i].y0]

ParagraphY0s(paragraphs) == [k \in DOMAIN paragraphs |-> Y0sOf(paragraphs[k])]

\* C6: the returned paragraphs hold the input's runs in (y0, x0) order; every
\* run of a paragraph has its y0 within 5 of the y0 of the paragraph's FIRST
\* run (the anchor), and the run that opens the next paragraph is more than 5
\* from that anchor. y0 values [0,1,2,50] give {0,1,2},{50}; [0,6,12] give
\* three paragraphs.
C6_ParagraphsAnchoredAtFirstRun ==
  grp.op = "_group_text_into_paragraphs" =>
    LET ps   == grp.ret
        flat == Flatten(ps)
    IN /\ Len(flat) = Len(grp.text_blocks)
       /\ { flat[i] : i \in DOMAIN flat }
            = { grp.text_blocks[i] : i \in DOMAIN grp.text_blocks }
       /\ \A i \in 1..(Len(flat) - 1) :
            \/ flat[i].y0 < flat[i + 1].y0
            \/ flat[i].y0 = flat[i + 1].y0 /\ flat[i].x0 <= flat[i + 1].x0
       /\ \A k \in DOMAIN ps :
            /\ ps[k] # <<>>
            /\ \A j \in DOMAIN ps[k] : Abs(ps[k][j].y0 - ps[k][1].y0) <= 5
       /\ \A k \in 1..(Len(ps) - 1) : Abs(ps[k + 1][1].y0 - ps[k][1].y0) > 5
       /\ Y0sOf(grp.text_blocks) = <<0, 1, 2, 50>>
            => ParagraphY0s(ps) = << <<0, 1, 2>>, <<50>> >>
       /\ Y0sOf(grp.text_blocks) = <<0, 6, 12>>
            => ParagraphY0s(ps) = << <<0>>, <<6>>, <<12>> >>

\* the runs with y0 = 0, 6, 12 have been grouped, into three paragraphs
C6_Witness ==
  /\ grp.op = "_group_text_into_paragraphs"
  /\ Y0sOf(grp.text_blocks) = <<0, 6, 12>>
  /\ Len(grp.ret) = 3

(***************************************************************************)
(* Further properties of FontMapper, checked under SpecFont.               *)
(***************************************************************************)

\* the branch of map_font that decides the result for a raw name
MapFontBranch(raw) ==
  LET cleaned == clean_font_name(raw) IN
    IF cleaned \in WEB_SAFE_FONTS THEN "web-safe"
    ELSE IF cleaned \in SubstitutionKeys THEN "substituted"
    ELSE "fallback"

\* C11: for every raw name, get_font_info reports the branch map_font took
\* (reason "web-safe" iff the cleaned name is in WEB_SAFE_FONTS, "substituted"
\* iff it is not but is a key of FONT_SUBSTITUTION, "fallback" iff neither),
\* its "mapped" field is map_font(raw), its "cleaned" field is
\* _clean_font_name(raw) and its "original" field is the raw name.
C11_FontInfoReportsTheBranchTaken ==
  fm.op = "get_font_info" =>
    /\ fm.ret.reason = MapFontBranch(fm.raw)
    /\ fm.ret.mapped = map_font(fm.raw)
    /\ fm.ret.cleaned = clean_font_name(fm.raw)
    /\ fm.ret.original = fm.raw

\* get_font_info("Georgia-Bold") has reported "web-safe" for a cleaned name that
\* is in both tables
C11_Witness ==
  /\ fm.op = "get_font_info"
  /\ fm.raw = <<"G","e","o","r","g","i","a","-","B","o","l","d">>
  /\ fm.ret.cleaned \in WEB_SAFE_FONTS \cap SubstitutionKeys
  /\ fm.ret.reason = "web-safe"

\* sub occurs in s (Python: sub in s)
Contains(s, sub) ==
  \E i \in 1..(Len(s) - Len(sub) + 1) : SubSeq(s, i, i + Len(sub) - 1) = sub

StyleWords ==
  { <<"B","o","l","d">>, <<"I","t","a","l","i","c">>,
    <<"R","e","g","u","l","a","r">> }

\* C12: for every name B of WEB_SAFE_FONTS and every style suffix S of
\* -Bold, -Italic, -BoldItalic, -Regular, MT, the cleaned form of B+S holds
\* none of "Bold", "Italic", "Regular", and map_font(B+S) = map_font(B).
C12_StyleVariantsAreCleaned ==
  \A B \in WEB_SAFE_FONTS : \A k \in DOMAIN StyleSuffixes :
    fm.raw = B \o StyleSuffixes[k] =>
      /\ fm.op = "_clean_font_name" =>
            \A w \in StyleWords : ~Contains(fm.ret, w)
      /\ fm.op = "map_font" => fm.ret = map_font(B)

(***************************************************************************)
(* Properties of _add_image_to_document and of create_document on images   *)
(* that cannot be embedded, checked under SpecDocx.                        *)
(***************************************************************************)

\* C13: for every image of positive pixel width w, the picture is embedded
\* with the width min(6 inches, w/72 inches), in EMU min(5486400, 12700 * w)
\* (5 inches for w = 360, 6 inches for w >= 432), and with no height of its
\* own, so that the height is scaled as the width is.
C13_PictureWidthIsPixelsOver72CappedAtSixInches ==
  (call.op = "_add_image_to_document" /\ call.arg.width > 0
     /\ call.arg.format \in DocxImageFormats) =>
    /\ Len(call.ret) >= 1
    /\ IsPicture(call.ret[1])
    /\ call.ret[1].width = Min(5486400, 12700 * call.arg.width)
    /\ call.ret[1].height = "scaled"

\* the pages without the images python-docx cannot read
RECURSIVE WithoutFailingImages(_)
WithoutFailingImages(pages) ==
  IF pages = <<>> THEN <<>>
  ELSE <<[Head(pages) EXCEPT !.images =
            SelectSeq(Head(pages).images, LAMBDA img : img.format \in DocxImageFormats)]>>
       \o WithoutFailingImages(Tail(pages))

HasFailingImage(pages) ==
  \E i \in DOMAIN pages : \E k \in DOMAIN pages[i].images :
    pages[i].images[k].format \notin DocxImageFormats

\* C14: when add_picture raises on an image, _add_image_to_document raises
\* nothing and adds nothing for that image, and create_document processes the
\* other images, the other pages, the page breaks and the save as if the
\* image were absent.
C14_FailedImageLeavesNoTrace ==
  /\ (call.op = "_add_image_to_document" /\ call.arg.format \notin DocxImageFormats) =>
       call.exc = "none" /\ call.ret = <<>>
  /\ (call.op = "create_document" /\ HasFailingImage(call.arg)) =>
       call = Called("create_document", call.arg,
                     create_document(WithoutFailingImages(call.arg),
                                     IF call.exc = "none" THEN "ok"
                                     ELSE IF call.ret.exists THEN "fail_partial"
                                     ELSE "fail_nothing"))

(***************************************************************************)
(* Properties of page extraction on pages out of range and on images that  *)
(* cannot be extracted, checked under Spec.                                *)
(***************************************************************************)

\* C15: for every page_number at or beyond the page count, process_page does
\* not raise and returns a page whose text_blocks and images are empty.
C15_PageOutOfRangeGivesEmptyPage ==
  (call.op = "process_page" /\ call.arg >= Len(pdf)) =>
    /\ call.exc = "none"
    /\ call.ret.text_blocks = <<>>
    /\ call.ret.images = <<>>

\* the images of a page that doc.extract_image returns
ExtractableImages(page) ==
  LET ok == SelectSeq(page.images, LAMBDA i : i.xref_ok) IN
    [k \in DOMAIN ok |-> PDFImageOf(ok[k])]

\* C16: an exception raised while one image of a page is extracted is caught:
\* process_page returns the page with its text and its other images, and
\* process_all_pages does not fail.
C16_FailingImageIsSkipped ==
  /\ (call.op = "process_page" /\ call.arg < Len(pdf)) =>
       /\ call.exc = "none"
       /\ call.ret.images = ExtractableImages(pdf[call.arg + 1])
       /\ pdf[call.arg + 1].words # <<>> =>
            call.ret.text_blocks = WordBlocks(pdf[call.arg + 1].words)
  /\ call.op = "process_all_pages" => call.exc = "none"

(***************************************************************************)
(* Properties of the /convert and /download endpoints, checked under Spec. *)
(***************************************************************************)

\* C17: after a conversion that failed while the pages were processed or the
\* document was saved (response 500), output_dir/<file_id>.docx does not
\* exist and a download of that file_id is answered 404.
C17_FailedConversionLeavesNoDocument ==
  http.response.status_code = 500 =>
    /\ ~http.output.exists
    /\ http.download \in {0, 404}

(***************************************************************************)
(* Properties of the pipeline with OCR requested, checked under Spec.      *)
(***************************************************************************)

\* a PDF of three pages: two native words and no image, no word and one
\* scanned image, nothing
ScenarioPdf ==
  << [words |-> <<WordNormal, WordText>>, images |-> <<>>, width |-> 612, height |-> 792],
     [words |-> <<>>, images |-> <<ImageScan>>, width |-> 612, height |-> 792],
     [words |-> <<>>, images |-> <<>>, width |-> 612, height |-> 792] >>

\* C18: with OCR requested and Tesseract installed, the three-page PDF above
\* gives a document of three sections in page order with exactly two page
\* breaks: the first holds the two native runs, the second the paragraph of
\* the OCR text followed by the picture, the third is empty.
C18_ScannedPageGivesOcrParagraphThenPicture ==
  (call.op = "create_document" /\ call.exc = "none" /\ pdf = ScenarioPdf
     /\ processor.requested /\ tesseract = "ok") =>
    LET body == call.ret.body
        sections == Sections(body)
    IN /\ BreakCount(body) = 2
       /\ Len(sections) = 3
       /\ RunTexts(sections[1]) = << WordNormal.text \o <<" ">>, WordText.text \o <<" ">> >>
       /\ PictureData(sections[1]) = <<>>
       /\ Len(sections[2]) >= 2
       /\ IsParagraph(sections[2][1])
       /\ RunTexts(<<sections[2][1]>>) = << Strip(ImageScan.ocr_text) \o <<" ">> >>
       /\ IsPicture(sections[2][2])
       /\ PictureData(sections[2]) = <<ImageScan.data>>
       /\ sections[3] = <<>>

\* C19: extract_text_from_image never raises; it returns the empty list when
\* the recognized text is empty after trimming, and otherwise one block whose
\* text is the trimmed text, whose box is (0, 0, width, height) of the
\* preprocessed image, whose font_name is "OCR-Result" and font_size 12.
C19_OcrGivesOneBlockOrNone ==
  (call.op = "extract_text_from_image" /\ tesseract = "ok") =>
    LET image == ImageOfBytes(call.arg)
        text == Strip(image.ocr_text)
        size == preprocess_image(<<image.width, image.height>>)
    IN /\ call.exc = "none"
       /\ text = <<>> => call.ret = <<>>
       /\ text # <<>> =>
            /\ Len(call.ret) = 1
            /\ call.ret[1].text = text
            /\ <<call.ret[1].x0, call.ret[1].y0, call.ret[1].x1, call.ret[1].y1>>
                 = <<0, 0, size[1], size[2]>>
            /\ call.ret[1].font_name = <<"O","C","R","-","R","e","s","u","l","t">>
            /\ call.ret[1].font_size = 12

\* C20: when OCR is requested and cannot be initialized (pytesseract missing,
\* or Tesseract unable to report its version), no PDFProcessor is constructed
\* and no conversion succeeds: the pipeline never goes on with OCR disabled.
C20_RequestedOcrThatFailsToStartFailsTheConversion ==
  tesseract # "ok" =>
    /\ ~(processor.constructed /\ processor.requested)
    /\ http.response.status_code # 200

(***************************************************************************)
(* Properties of the retention of files, checked under Spec.               *)
(***************************************************************************)

\* C21: after a successful /convert the uploaded PDF and the generated DOCX
\* are both kept until file_ttl_hours (1 hour) after the conversion and both
\* deleted by then: neither is deleted earlier, neither is there later; after
\* a failed conversion the uploaded PDF is gone at once.
C21_BothFilesDeletedOneWindowAfterConversion ==
  /\ http.response.status = "completed" =>
       /\ http.clock < FILE_TTL_HOURS => http.upload_exists /\ http.output.exists
       /\ http.clock > FILE_TTL_HOURS => ~http.upload_exists /\ ~http.output.exists
  /\ http.response.status_code = 500 => ~http.upload_exists

(***************************************************************************)
(* Properties of the extraction operations, checked under Spec.            *)
(***************************************************************************)

ExtractionOperations ==
  {"get_page_count", "extract_text_blocks", "extract_images", "process_page",
   "process_all_pages"}

\* C22: every handle to the PDF that get_page_count, extract_text_blocks,
\* extract_images or process_page opens is closed when the operation ends,
\* whether it returns, returns early for a page out of range, or raises: no
\* operation leaves a handle open.
C22_NoHandleLeftOpen ==
  call.op \in ExtractionOperations => call.fx.open_handles = 0

\* the pixel area of an image
Area(image) == image.width * image.height

\* C23: when the OCR fallback applies to a page with several images (OCR
\* requested, Tesseract installed, no native words), OCR is run on exactly one
\* image, the first in enumeration order of those whose pixel area is the
\* largest.
C23_OcrRunsOnTheLargestImage ==
  (call.op = "extract_text_blocks" /\ processor.requested /\ tesseract = "ok"
     /\ call.arg < Len(pdf) /\ pdf[call.arg + 1].words = <<>>
     /\ Len(pdf[call.arg + 1].images) >= 2
     /\ PageImagesExtractable(pdf[call.arg + 1])) =>
    LET images == pdf[call.arg + 1].images IN
      /\ Len(call.fx.ocr) = 1
      /\ \E k \in DOMAIN images :
           /\ call.fx.ocr[1].data = images[k].data
           /\ \A j \in DOMAIN images : Area(images[k]) >= Area(images[j])
           /\ \A j \in 1..(k - 1) : Area(images[j]) < Area(images[k])

(***************************************************************************)
(* Properties of OCRProcessor, checked under Spec.                         *)
(***************************************************************************)

\* C24: _preprocess_image leaves an image whose sides are at most 4000
\* unchanged; otherwise the longer side becomes exactly 4000 and the shorter
\* side floor(shorter * 4000 / longer), so both sides are at most 4000.
C24_LongerSideBecomesExactly4000 ==
  call.op = "_preprocess_image" =>
    LET longest == Max(call.arg[1], call.arg[2]) IN
      IF longest <= 4000 THEN call.ret = call.arg
      ELSE \A i \in {1, 2} :
             /\ call.ret[i] <= 4000
             /\ call.ret[i] = IF call.arg[i] = longest THEN 4000
                              ELSE (call.arg[i] * 4000) \div longest

IsBlank(e) == IsParagraph(e) /\ e.runs = <<>>

\* a paragraph that holds text
IsTextParagraph(e) == IsParagraph(e) /\ e.runs # <<>>

\* the pages of the list are numbered 0, 1, ... as process_all_pages numbers
\* them
NumberedInOrder(pages) == \A i \in DOMAIN pages : pages[i].page_number = i - 1

Embeddable(img) == img.format \in DocxImageFormats

\* C26: within each page section of the output, all text paragraphs of the
\* page come before all of its images; each text run yields exactly one
\* fragment whose text is the run's text plus one trailing space, in sorted
\* (y0, x0) order; images appear in the page's image-list order and each
\* successfully embedded image is immediately followed by exactly one blank
\* paragraph.
C26_TextThenImagesEachWithOneBlankParagraph ==
  (call.op = "create_document" /\ call.exc = "none" /\ call.arg # <<>>
     /\ NumberedInOrder(call.arg)) =>
    LET sections == Sections(call.ret.body) IN
      /\ Len(sections) = Len(call.arg)
      /\ \A i \in DOMAIN call.arg :
           LET section == sections[i]
               page == call.arg[i]
               sorted == SortedBlocks(page.text_blocks)
               embedded == SelectSeq(page.images, Embeddable)
           IN /\ \A j, k \in DOMAIN section :
                    IsTextParagraph(section[j]) /\ IsPicture(section[k]) => j < k
              /\ RunTexts(section) = [k \in DOMAIN sorted |-> sorted[k].text \o <<" ">>]
              /\ PictureData(section) = [k \in DOMAIN embedded |-> embedded[k].data]
              /\ \A j \in DOMAIN section :
                    IsPicture(section[j]) =>
                      /\ j < Len(section)
                      /\ IsBlank(section[j + 1])
                      /\ j + 2 <= Len(section) => ~IsBlank(section[j + 2])

(***************************************************************************)
(* Properties of the constructor of PDFProcessor, checked under Spec.      *)
(***************************************************************************)

Occurrences(s, b) == Cardinality({ i \in DOMAIN s : s[i] = b })

\* C28: _group_text_into_paragraphs returns a partition of its input: the
\* paragraphs, one after the other, are the input runs sorted by (y0, x0),
\* each run once; no paragraph is empty; every run of a paragraph has y0
\* within 5 of the paragraph's first run; the first runs of consecutive
\* paragraphs differ in y0 by more than 5; an empty input gives no paragraph.
C28_ParagraphsPartitionTheSortedInput ==
  grp.op = "_group_text_into_paragraphs" =>
    LET flat == Flatten(grp.ret) IN
      /\ Len(flat) = Len(grp.text_blocks)
      /\ \A i \in DOMAIN grp.text_blocks :
           Occurrences(flat, grp.text_blocks[i])
             = Occurrences(grp.text_blocks, grp.text_blocks[i])
      /\ \A i, j \in DOMAIN flat :
           i < j => \/ flat[i].y0 < flat[j].y0
                    \/ flat[i].y0 = flat[j].y0 /\ flat[i].x0 <= flat[j].x0
      /\ \A k \in DOMAIN grp.ret :
           /\ Len(grp.ret[k]) >= 1
           /\ \A j \in DOMAIN grp.ret[k] :
                grp.ret[k][j].y0 - grp.ret[k][1].y0 \in 0..5
      /\ \A k \in DOMAIN grp.ret :
           k > 1 => grp.ret[k][1].y0 - grp.ret[k - 1][1].y0 > 5
      /\ grp.text_blocks = <<>> => grp.ret = <<>>

\* three runs given out of order have been grouped into two paragraphs, the
\* first of two runs
C28_Witness ==
  /\ grp.op = "_group_text_into_paragraphs"
  /\ Len(grp.text_blocks) = 3
  /\ grp.text_blocks[1].y0 > grp.text_blocks[3].y0
  /\ Len(grp.ret) = 2
  /\ Len(grp.ret[1]) = 2
  /\ Flatten(grp.ret) # grp.text_blocks

(***************************************************************************)
(* map_font applied to its own result, checked under SpecFont.             *)
(***************************************************************************)

\* C29: map_font is idempotent: map_font(map_font(s)) = map_font(s) for
\* every name s, so every name map_font returns is a fixed point of map_font.
C29_MapFontIsIdempotent ==
  fm.op = "map_font" => map_font(fm.ret) = fm.ret

(***************************************************************************)
(* Rejected uploads, checked under Spec.                                   *)
(***************************************************************************)

\* C30: a /convert request rejected at validation (a filename that does not
\* end in .pdf gives 400, a content larger than max_file_size_bytes gives
\* 413) leaves the storage unchanged: no file is written to the upload or
\* output directory, no identifier is assigned, the pipeline is not invoked
\* and no cleanup task is scheduled.
C30_RejectedUploadLeavesNoTrace ==
  LET name == http.request.filename
      ends_in_pdf == Len(name) >= 4
                       /\ name[Len(name) - 3] = "."
                       /\ name[Len(name) - 2] \in {"p", "P"}
                       /\ name[Len(name) - 1] \in {"d", "D"}
                       /\ name[Len(name)] \in {"f", "F"}
      larger == http.request.size > 150 * 1024 * 1024
  IN
  /\ (http.request.received /\ ~ends_in_pdf) => http.response.status_code = 400
  /\ (http.request.received /\ ends_in_pdf /\ larger)
       => http.response.status_code = 413
  /\ http.response.status_code \in {400, 413} =>
       /\ ~ends_in_pdf \/ larger
       /\ ~http.upload_exists
       /\ http.output = NoFile
       /\ http.response.file_id = "none"
       /\ http.pipeline_runs = 0
       /\ http.tasks = <<>>
       /\ http.download \in {0, 404}

\* an upload named like a PDF and one byte over the limit has been answered
\* with 413, and an hour later nothing of it is there to download
C30_Witness ==
  /\ http.request.received
  /\ IsPdfName(http.request.filename)
  /\ http.request.size = max_file_size_bytes + 1
  /\ http.response.status_code = 413
  /\ ~http.upload_exists
  /\ http.clock = 1
  /\ http.download = 404

====
